---- MODULE Spec2Model ----
(***************************************************************************)
(* Wagon load balancing (wagon_load_balancing.ipynb).                      *)
(*                                                                         *)
(* The notebook loads boxes (weights) and wagons (capacities), builds the  *)
(* minimax MILP  min W  s.t.  sum_n x[b,n] = 1,  sum_b wb[b]*x[b,n] <= W,  *)
(* x binary, W >= 0, hands it to GLPK, prints every (box, wagon) pair      *)
(* whose indicator is non-zero and prints the objective value.             *)
(*                                                                         *)
(* The cells are the actions; the session variables are the state.  The    *)
(* solver is an external engine: for status "optimal" it returns one of    *)
(* the optimal points of the model as built, which one is its choice.      *)
(* Weights are the integers of the data sheet, so the optimal W is an      *)
(* integer and W ranges over integers here.                                *)
(***************************************************************************)
EXTENDS Integers, Sequences, FiniteSets, TLC

\* Bounds of the instances drawn in Init.
MaxBoxes == 2
MaxWagons == 2
MaxWeight == 3
MaxCapacity == 1

\* Weights a data sheet may hold: nothing in the notebook rejects a negative one.
Weights == {-1} \cup (0 .. MaxWeight)
Capacities == 1 .. MaxCapacity

None == "none"

\* Termination conditions of the solving engine.
Status == {"optimal", "infeasible", "unbounded", "error", "timeLimit"}

VARIABLES
    B,          \* boxes.index
    N,          \* wagons.index
    wb,         \* boxes["Weight"]
    capacity,   \* wagons["Capacity"]
    pc,         \* the cell the session has reached
    status,     \* results.solver.termination_condition
    loaded,     \* whether the solver's values were loaded into model.x, model.W
    x,          \* values of model.x
    W,          \* value of model.W
    printed,    \* lines printed by the decode loop, as <<box, wagon>>
    reported,   \* what the last cell printed: << >>, or <<objective value>>
    prevW,      \* what the last cell printed in the previous run, or << >>
    placed,     \* boxes given a wagon so far in the enumeration of the instance
    load        \* load of each wagon in the enumeration of the instance

vars == <<B, N, wb, capacity, pc, status, loaded, x, W, printed, reported,
          prevW, placed, load>>

Max(S) == CHOOSE m \in S : \A t \in S : t <= m
Min(S) == CHOOSE m \in S : \A t \in S : m <= t

----------------------------------------------------------------------------
\* The model of cell 466345fe.

\* sum(model.x[b,n] for n in N), over the first k wagons
RECURSIVE RowSum(_, _, _)
RowSum(xx, b, k) ==
    IF k = 0 THEN 0 ELSE RowSum(xx, b, k - 1) + xx[<<b, k>>]

\* sum(wb[b]*model.x[b,n] for b in B), over the first k boxes
RECURSIVE WeightedSum(_, _, _)
WeightedSum(xx, n, k) ==
    IF k = 0 THEN 0 ELSE WeightedSum(xx, n, k - 1) + wb[k] * xx[<<k, n>>]

\* (the weight factor dropped: the load counts boxes)
LoadMut(xx, n) == Cardinality({b \in B : xx[<<b, n>>] # 0})
Load(xx, n) == WeightedSum(xx, n, Cardinality(B))

\* model.x = pyo.Var(B, N, domain=pyo.Binary)
XDomain == [B \X N -> {0, 1}]

\* model.W = pyo.Var(domain=pyo.NonNegativeReals); no optimum lies above the
\* sum of the positive weights, which closes the range.
RECURSIVE PositiveSum(_)
PositiveSum(k) ==
    IF k = 0 THEN 0
    ELSE PositiveSum(k - 1) + (IF wb[k] > 0 THEN wb[k] ELSE 0)
WDomain == 0 .. PositiveSum(Cardinality(B))

\* (<= in place of ==)
constraint1Mut(xx) == \A b \in B : RowSum(xx, b, Cardinality(N)) <= 1
\* All boxes must be allocated.
constraint1(xx) == \A b \in B : RowSum(xx, b, Cardinality(N)) = 1

\* (the last wagon left out of the loop)
constraint2Mut(xx, w) == \A n \in N \ {Cardinality(N)} : Load(xx, n) <= w
\* The total weight of a wagon is at most the maximum weight W.
constraint2(xx, w) == \A n \in N : Load(xx, n) <= w

\* (a constant objective: W is no longer minimized)
objectiveMut(xx, w) == 0
\* pyo.Objective(expr=model.W, sense=pyo.minimize)
objective(xx, w) == w

\* The points that satisfy the variable domains and both constraint lists.
Feasible ==
    LET X1 == {xx \in XDomain : constraint1(xx)}
    IN  {s \in X1 \X WDomain : constraint2(s[1], s[2])}

\* (the engine stops at the first integer feasible point it finds)
OptimalSolutionsMut ==
    {s \in Feasible : \A w \in WDomain : constraint2(s[1], w) => s[2] <= w}
\* What the engine may return with termination condition optimal.
OptimalSolutions ==
    LET F == Feasible
        best == Min({objective(s[1], s[2]) : s \in F})
    IN  {s \in F : objective(s[1], s[2]) = best}

\* What the engine may hold when it stops early: an integer feasible point
\* with W at the load it carries.
Incumbents ==
    {s \in Feasible : \A w \in WDomain : constraint2(s[1], w) => s[2] <= w}

----------------------------------------------------------------------------
\* The cells.

\* The decode loop of cell 39e90510: for n in N: for b in B:
\*     if pyo.value(model.x[b,n]) != 0: print(b, n)
\* as the lines printed over the first k (wagon, box) pairs, wagon-major.
RECURSIVE DecodeLines(_, _)
DecodeLines(xx, k) ==
    IF k = 0 THEN << >>
    ELSE LET nb == Cardinality(B)
             n == ((k - 1) \div nb) + 1
             b == ((k - 1) % nb) + 1
             sofar == DecodeLines(xx, k - 1)
         IN  IF xx[<<b, n>>] # 0 THEN Append(sofar, <<b, n>>) ELSE sofar

Reset ==
    /\ status' = None
    /\ loaded' = FALSE
    /\ x' = None
    /\ W' = None
    /\ printed' = << >>
    /\ reported' = << >>

\* Cells 069eaeda .. 5892dfb5: the data as loaded, before the model is built.
Init ==
    /\ \E nb \in 0 .. MaxBoxes : B = 1 .. nb
    /\ \E nw \in 0 .. MaxWagons : N = 1 .. nw
    /\ wb \in [B -> Weights]
    /\ capacity \in [N -> Capacities]
    /\ pc = "loaded"
    /\ status = None
    /\ loaded = FALSE
    /\ x = None
    /\ W = None
    /\ printed = << >>
    /\ reported = << >>
    /\ prevW = << >>
    /\ placed = 0
    /\ load = << >>

\* Cell 466345fe, lines 369-382.  With no wagon and at least one box,
\* sum(... for n in N) == 1 is the Python value False and ConstraintList.add
\* raises; nothing else in the cell looks at the data.
BuildModel ==
    /\ pc = "loaded"
    /\ pc' = IF B # {} /\ N = {} THEN "buildError" ELSE "built"
    /\ UNCHANGED <<B, N, wb, capacity, status, loaded, x, W, printed, reported,
                   prevW, placed, load>>

\* Cell 466345fe, lines 384-386: results = solver.solve(model).
Solve ==
    /\ pc = "built"
    /\ \E st \in Status :
        /\ status' = st
        /\ \/ /\ st = "optimal"
              /\ \E s \in OptimalSolutions : x' = s[1] /\ W' = s[2]
              /\ loaded' = TRUE
              /\ pc' = "solved"
           \/ /\ st = "timeLimit"
              /\ \E s \in Incumbents : x' = s[1] /\ W' = s[2]
              /\ loaded' = TRUE
              /\ pc' = "solved"
           \/ /\ st \in {"timeLimit", "infeasible", "unbounded"}
              /\ x' = None /\ W' = None
              /\ loaded' = FALSE
              /\ pc' = "solved"
           \/ /\ st = "error"
              /\ x' = None /\ W' = None
              /\ loaded' = FALSE
              /\ pc' = "solverError"
    /\ UNCHANGED <<B, N, wb, capacity, printed, reported, prevW, placed, load>>

\* Cell 39e90510.  pyo.value of a variable that holds no value raises.
Decode ==
    /\ pc = "solved"
    /\ IF ~loaded /\ B \X N # {}
       THEN pc' = "decodeError" /\ printed' = << >>
       ELSE /\ pc' = "decoded"
            /\ printed' = IF loaded
                          THEN DecodeLines(x, Cardinality(B) * Cardinality(N))
                          ELSE << >>
    /\ UNCHANGED <<B, N, wb, capacity, status, loaded, x, W, reported, prevW,
                   placed, load>>

\* Cell cf5a9316: print(pyo.value(model.objective)).
Report ==
    /\ pc = "decoded"
    /\ IF loaded
       THEN pc' = "reported" /\ reported' = <<objective(x, W)>>
       ELSE pc' = "reportError" /\ reported' = << >>
    /\ UNCHANGED <<B, N, wb, capacity, status, loaded, x, W, printed, prevW,
                   placed, load>>

Next == BuildModel \/ Solve \/ Decode \/ Report

Spec == Init /\ [][Next]_vars

----------------------------------------------------------------------------
\* A second run of the notebook on an edited data sheet.

\* The weight of box b is raised by one in the sheet and the cells are run
\* again from the top; prevW keeps the objective value the last cell printed.
EditAndRerun(b) ==
    /\ pc = "reported"
    /\ status = "optimal"
    /\ wb[b] + 1 \in Weights
    /\ wb' = [wb EXCEPT ![b] = @ + 1]
    /\ prevW' = reported
    /\ pc' = "loaded"
    /\ Reset
    /\ UNCHANGED <<B, N, capacity, placed, load>>

NextRerun == Next \/ \E b \in B : EditAndRerun(b)

SpecRerun == Init /\ [][NextRerun]_vars

----------------------------------------------------------------------------
\* The decode loop and the report on any result record.

\* A record with values loaded for every variable, whatever they are.
InitDecode ==
    /\ \E nb \in 0 .. MaxBoxes : B = 1 .. nb
    /\ \E nw \in 0 .. MaxWagons : N = 1 .. nw
    /\ wb \in [B -> Weights]
    /\ capacity \in [N -> Capacities]
    /\ pc = "solved"
    /\ status = "optimal"
    /\ loaded = TRUE
    /\ x \in XDomain
    /\ W \in WDomain
    /\ printed = << >>
    /\ reported = << >>
    /\ prevW = << >>
    /\ placed = 0
    /\ load = << >>

NextDecode == Decode \/ Report

SpecDecode == InitDecode /\ [][NextDecode]_vars

----------------------------------------------------------------------------
\* The instance of the notebook: sixteen boxes, three wagons.

\* (box 1 read as 30)
WagonWeightsMut == <<30, 6, 8, 17, 16, 5, 13, 21, 25, 31, 14, 13, 33, 9, 25, 25>>
\* Sheet "Boxes", column Weight.
WagonWeights == <<34, 6, 8, 17, 16, 5, 13, 21, 25, 31, 14, 13, 33, 9, 25, 25>>

\* Sheet "Wagons", column Capacity.
WagonCapacities == <<100, 100, 100>>

\* The assignment the decode loop printed, as the wagon of each box.
RecordedAssignment == <<1, 1, 3, 3, 2, 2, 2, 3, 2, 2, 3, 3, 1, 2, 1, 3>>

\* The objective value the last cell printed.
RecordedObjective == 99

InitWagon ==
    /\ B = 1 .. Len(WagonWeights)
    /\ N = 1 .. Len(WagonCapacities)
    /\ wb = WagonWeights
    /\ capacity = WagonCapacities
    /\ pc = "built"
    /\ status = None
    /\ loaded = FALSE
    /\ x = None
    /\ W = None
    /\ printed = << >>
    /\ reported = << >>
    /\ prevW = << >>
    /\ placed = 0
    /\ load = [n \in N |-> 0]

\* (the load of the wagon overwritten instead of added to)
AssignMut(n) ==
    /\ placed < Cardinality(B)
    /\ placed' = placed + 1
    /\ load' = [load EXCEPT ![n] = wb[placed + 1]]
    /\ UNCHANGED <<B, N, wb, capacity, pc, status, loaded, x, W, printed,
                   reported, prevW>>
\* One step through the points of constraint1: the next box b gets exactly one
\* wagon n (x[b,n] = 1, x[b,m] = 0 elsewhere), and the left-hand side of the
\* row of constraint2 for n grows by wb[b].
Assign(n) ==
    /\ placed < Cardinality(B)
    /\ placed' = placed + 1
    /\ load' = [load EXCEPT ![n] = @ + wb[placed + 1]]
    /\ UNCHANGED <<B, N, wb, capacity, pc, status, loaded, x, W, printed,
                   reported, prevW>>

NextWagon == \E n \in N : Assign(n)

SpecWagon == InitWagon /\ [][NextWagon]_vars

----------------------------------------------------------------------------
\* Properties.

\* The input contract of the model builder: both sets non-empty, no negative
\* weight.
NonNegativeWeights == \A b \in B : wb[b] >= 0
ValidInstance == B # {} /\ N # {} /\ NonNegativeWeights

Decoded == pc \in {"decoded", "reported"}

\* Lines the decode loop printed for box b.
LinesOf(b) == {i \in 1 .. Len(printed) : printed[i][1] = b}

\* Sum of the weights of the boxes printed for wagon n in the first k lines.
RECURSIVE DecodedLoad(_, _)
DecodedLoad(n, k) ==
    IF k = 0 THEN 0
    ELSE DecodedLoad(n, k - 1) +
         (IF printed[k][2] = n THEN wb[printed[k][1]] ELSE 0)

\* Number of non-zero indicators of box b.
NonZero(b) == Cardinality({n \in N : x[<<b, n>>] # 0})

\* C1: after an optimal solve of a feasible input (non-empty boxes and wagons,
\* non-negative weights) the indicators of every box sum to 1 and the decode
\* loop prints exactly one line, hence one wagon, for every box.
C1_ExactlyOneBin ==
    (Decoded /\ status = "optimal" /\ ValidInstance) =>
        \A b \in B : /\ RowSum(x, b, Cardinality(N)) = 1
                     /\ Cardinality(LinesOf(b)) = 1

C1_Witness ==
    /\ Decoded /\ status = "optimal" /\ ValidInstance
    /\ Cardinality(B) = 2 /\ Cardinality(N) = 2
    /\ Len(printed) = 2
    /\ printed[1][2] # printed[2][2]

\* C2: after an optimal solve (non-negative weights, at least one wagon) the
\* objective value printed equals the largest wagon load of the printed
\* assignment: no wagon is above it and it is not above all of them.
C2_BottleneckIsMaxLoad ==
    (pc = "reported" /\ status = "optimal" /\ NonNegativeWeights /\ N # {}) =>
        /\ \A n \in N : DecodedLoad(n, Len(printed)) <= reported[1]
        /\ \E n \in N : DecodedLoad(n, Len(printed)) = reported[1]

C2_Witness ==
    /\ pc = "reported" /\ status = "optimal" /\ ValidInstance
    /\ Cardinality(N) = 2
    /\ reported = <<3>>
    /\ \E n \in N : DecodedLoad(n, Len(printed)) < reported[1]

\* C5 (as claimed): with a termination condition other than optimal, no line
\* of the assignment is printed and no objective value is reported (stated
\* for feasible inputs).
C5_OnlyWhenOptimal ==
    (ValidInstance /\ status # None /\ status # "optimal") =>
        (printed = << >> /\ reported = << >>)

\* C6 (as claimed): in the assignment printed after an optimal solve, the load
\* of every wagon is at most the capacity of that wagon.
C6_WithinCapacity ==
    (Decoded /\ status = "optimal" /\ ValidInstance) =>
        \A n \in N : DecodedLoad(n, Len(printed)) <= capacity[n]

\* C7 (as claimed): the decode loop completes only on a record in which every
\* box has exactly one non-zero indicator; on any other record it fails and
\* prints no mapping (stated for feasible inputs).
C7_DecodeFailsOnInconsistent ==
    (Decoded /\ ValidInstance) => \A b \in B : NonZero(b) = 1

\* C8 (as claimed): an instance with a negative weight, no box or no wagon is
\* rejected when the model is built, so it is never handed to the solver.
C8_InvalidRejected ==
    ~ValidInstance => pc \in {"loaded", "buildError"}

\* C9: when the notebook is run again with one weight raised and nothing else
\* changed, and both runs end optimal, the objective value of the second run
\* is at least that of the first.
C9_Monotone ==
    (pc = "reported" /\ status = "optimal" /\ prevW # << >>) =>
        reported[1] >= prevW[1]

C9_Witness ==
    /\ pc = "reported" /\ status = "optimal" /\ prevW # << >>
    /\ ValidInstance /\ Cardinality(N) = 2
    /\ reported[1] > prevW[1]

\* Box h weighs more than all the other boxes together.
RECURSIVE TotalWeight(_)
TotalWeight(k) == IF k = 0 THEN 0 ELSE TotalWeight(k - 1) + wb[k]
Heavy(h) == wb[h] > TotalWeight(Cardinality(B)) - wb[h]

LoadValues == {load[n] : n \in N}
RECURSIVE SumLoads(_)
SumLoads(k) == IF k = 0 THEN 0 ELSE SumLoads(k - 1) + load[k]
AllPlaced == load # << >> /\ placed = Cardinality(B)

\* Load of wagon n in the assignment the notebook printed, over the first k boxes.
RECURSIVE RecordedLoad(_, _)
RecordedLoad(n, k) ==
    IF k = 0 THEN 0
    ELSE RecordedLoad(n, k - 1) +
         (IF RecordedAssignment[k] = n THEN WagonWeights[k] ELSE 0)

\* C3: for the sixteen weights of the notebook and three wagons the optimum is
\* 99: no assignment of every box to one wagon has all loads <= 98, and the
\* printed assignment has all loads <= 99.
C3_Optimum99 ==
    /\ AllPlaced => Max(LoadValues) >= RecordedObjective
    /\ load # << >> =>
         \A n \in N : RecordedLoad(n, Len(RecordedAssignment)) <= RecordedObjective

C3_Witness ==
    /\ AllPlaced
    /\ load = [n \in N |-> RecordedLoad(n, Len(RecordedAssignment))]
    /\ Max(LoadValues) = RecordedObjective

\* C4 (as claimed): in an optimal assignment of the instance the three loads
\* add up to 299.
C4_Sum299 ==
    (AllPlaced /\ Max(LoadValues) = RecordedObjective) =>
        SumLoads(Cardinality(N)) = 299

\* C4 (amended): in every assignment of all sixteen boxes of the instance, the
\* optimal ones among them, the three loads add up to 295, the total weight
\* of the boxes.
C4_Sum295 ==
    AllPlaced =>
        /\ SumLoads(Cardinality(N)) = 295
        /\ TotalWeight(Cardinality(B)) = 295

C4_Witness ==
    /\ AllPlaced
    /\ Max(LoadValues) = RecordedObjective
    /\ SumLoads(Cardinality(N)) = TotalWeight(Cardinality(B))

====
